---- MODULE Spec2Model ----
(***************************************************************************)
(* Model of server/src/operators/crawl_operator.rs: the crawl-request      *)
(* lifecycle operations over the crawl_requests table and the scrape_queue,*)
(* and the paginated aggregation loop get_crawl_from_firecrawl.            *)
(*                                                                         *)
(* An Option<T> is modelled as a sequence of length at most one:           *)
(* None is << >> and Some(x) is <<x>>.                                     *)
(*                                                                         *)
(* Spec is the lifecycle operations called one after another on a table    *)
(* and a queue that start empty; FetchSpec is one call of                  *)
(* get_crawl_from_firecrawl against a provider that answers each URL in    *)
(* some fixed way; SegSpec is one call of chunk_html, one iteration of     *)
(* its scan per step, on an input that is a short sequence of tokens;      *)
(* ReconSpec is two calls of update_crawl_settings_for_dataset running at  *)
(* once, one statement or request per step.                                *)
(***************************************************************************)
EXTENDS Integers, Sequences, FiniteSets, TLC

\* ------------------------------------------------------------------------
\* Bounds of the model
\* ------------------------------------------------------------------------
MaxOps == 3
MaxFetches == 3
MaxPages == 2
MaxHtml == 5

\* ------------------------------------------------------------------------
\* Data model
\* ------------------------------------------------------------------------
None == << >>
Some(x) == <<x>>

Datasets == {"d1", "d2"}

\* uuid::Uuid::nil()
NilId == 0

\* The CrawlOptions the operations are called with.
OptionInputs ==
  { [site_url |-> Some("a"), interval |-> None,
     scrape_options |-> Some("Shopify")],
    [site_url |-> None, interval |-> Some("Weekly"),
     scrape_options |-> None],
    [site_url |-> Some("b"), interval |-> Some("Monthly"),
     scrape_options |-> None] }

\* CrawlOptions::merge (data::models): field by field, a field set in new
\* wins, a field unset in new falls back to old.
Merge(new, old) ==
  [f \in DOMAIN new |-> IF new[f] # None THEN new[f] ELSE old[f]]

\* interval match of create_crawl_request
IntervalSecs(interval) ==
  IF interval = Some("Daily") THEN 60 * 60 * 24
  ELSE IF interval = Some("Weekly") THEN 60 * 60 * 24 * 7
  ELSE IF interval = Some("Monthly") THEN 60 * 60 * 24 * 30
  ELSE 60 * 60 * 24

VARIABLES
  crawl_requests,   \* the crawl_requests table, rows in insertion order
  scrape_queue,     \* the redis list "scrape_queue", head first
  next_job,         \* the next job id the crawl provider hands out
  ops,              \* number of operations called so far
  faulted,          \* whether a step of an operation has failed so far
  ret,              \* the last operation: its arguments, result and effects
  \* get_crawl_from_firecrawl
  pc,               \* "idle", "loop" (in the while loop) or "done" (returned)
  firecrawl_url,    \* the URL the next GET goes to
  collected_docs,   \* the documents accumulated so far
  served,           \* what the provider answers at each URL asked so far
  gets,             \* the URLs fetched, in order
  fetched,          \* the value get_crawl_from_firecrawl returned
  \* chunk_html
  seg_pc,           \* "idle", "scan" (in the for loop or before the flush)
                    \* or "done" (returned)
  html,             \* the input
  caps,             \* the matches re.find_iter(html) has yet to yield
  chunks,           \* the chunks pushed so far
  current_chunk,
  last_end,
  short_chunk,
  \* update_crawl_settings_for_dataset, statement by statement
  recon             \* for each call in progress: where it is, its arguments
                    \* and its local variables

lifecycle_vars == <<crawl_requests, scrape_queue, next_job, ops, faulted, ret>>
fetch_vars == <<pc, firecrawl_url, collected_docs, served, gets, fetched>>
seg_vars ==
  <<seg_pc, html, caps, chunks, current_chunk, last_end, short_chunk>>
vars == <<crawl_requests, scrape_queue, next_job, ops, faulted, ret,
          pc, firecrawl_url, collected_docs, served, gets, fetched,
          seg_pc, html, caps, chunks, current_chunk, last_end, short_chunk,
          recon>>

\* ------------------------------------------------------------------------
\* Results of an operation (Result<_, ServiceError>)
\* ------------------------------------------------------------------------
NoRet ==
  [op |-> "none", dataset |-> None, options |-> None, job |-> None,
   now |-> None, result |-> "Ok", message |-> "", id |-> None,
   rows |-> << >>, trace |-> << >>, repeat |-> FALSE]

\* impl From<diesel::result::Error> for ServiceError, used by `?` on the
\* select of update_crawl_settings_for_dataset
FromDieselError == "InternalServerError"

Indices(table) == DOMAIN table

\* .filter(scrape_id.eq(crawl_id))
ByScrapeId(table, crawl_id) ==
  {i \in Indices(table) : table[i].scrape_id = crawl_id}

\* .filter(dataset_id.eq(dataset_id))
ByDataset(table, dataset_id) ==
  {i \in Indices(table) : table[i].dataset_id = dataset_id}

\* diesel::update(filter).set(column.eq(value)): every row of the filter
UpdateWhere(table, rows, column, value) ==
  [i \in Indices(table) |->
     IF i \in rows THEN [table[i] EXCEPT ![column] = value] ELSE table[i]]

\* ------------------------------------------------------------------------
\* crawl_site: POST {base}/v1/crawl
\* ------------------------------------------------------------------------
crawl_site(job, fail) ==
  IF fail = "post_send" THEN
    [result |-> "InternalServerError",
     message |-> "Error sending request to firecrawl", id |-> None]
  ELSE IF fail = "post_status" THEN
    [result |-> "InternalServerError",
     message |-> "Error getting response from firecrawl", id |-> None]
  ELSE IF fail = "post_json" THEN
    [result |-> "InternalServerError",
     message |-> "Error parsing response from firecrawl", id |-> None]
  ELSE IF fail = "post_id" THEN
    [result |-> "Panic", message |-> "unwrap", id |-> None]
  ELSE [result |-> "Ok", message |-> "", id |-> Some(job)]

\* ------------------------------------------------------------------------
\* create_crawl_request
\* ------------------------------------------------------------------------
\* a bug: the new request is scheduled one interval ahead instead of now
NewCrawlRequestNextInterval(table, crawl_options, dataset_id, scrape_id, t) ==
  [id |-> Len(table) + 1,
   url |-> IF crawl_options.site_url = None THEN ""
           ELSE crawl_options.site_url[1],
   status |-> "Pending",
   interval |-> IntervalSecs(crawl_options.interval),
   next_crawl_at |-> t + IntervalSecs(crawl_options.interval),
   crawl_options |-> crawl_options,
   scrape_id |-> scrape_id,
   dataset_id |-> dataset_id,
   created_at |-> t,
   attempt_number |-> 0]

\* the CrawlRequest built at lines 245-257; t is chrono::Utc::now()
NewCrawlRequest(table, crawl_options, dataset_id, scrape_id, t) ==
  [id |-> Len(table) + 1,
   url |-> IF crawl_options.site_url = None THEN ""
           ELSE crawl_options.site_url[1],
   status |-> "Pending",
   interval |-> IntervalSecs(crawl_options.interval),
   next_crawl_at |-> t,
   crawl_options |-> crawl_options,
   scrape_id |-> scrape_id,
   dataset_id |-> dataset_id,
   created_at |-> t,
   attempt_number |-> 0]

\* serde_json::to_string(&CrawlRequest::from(row)): the JSON object of the
\* request, keyed by field name
Serialize(row) == [json |-> row]

\* a bug: the insert replaces the requests the dataset already has
InsertReplacing(table, row) ==
  LET Other(r) == r.dataset_id # row.dataset_id
  IN Append(SelectSeq(table, Other), row)

\* diesel::insert_into(crawl_requests).values(&new_crawl_request)
Insert(table, row) == Append(table, row)

create_crawl_request(table, queue, crawl_options, dataset_id, scrape_id, t, fail) ==
  LET row == NewCrawlRequest(table, crawl_options, dataset_id, scrape_id, t)
      inserted == Insert(table, row)
  IN IF fail = "create_pool" THEN
       [table |-> table, queue |-> queue, result |-> "InternalServerError",
        message |-> "pool", id |-> None, trace |-> << >>]
     ELSE IF fail = "insert" THEN
       [table |-> table, queue |-> queue, result |-> "InternalServerError",
        message |-> "query", id |-> None, trace |-> << >>]
     ELSE IF fail = "redis_pool" THEN
       [table |-> inserted, queue |-> queue,
        result |-> "InternalServerError", message |-> "redis pool",
        id |-> None, trace |-> <<"insert">>]
     ELSE IF fail = "lpush" THEN
       [table |-> inserted, queue |-> queue, result |-> "BadRequest",
        message |-> "redis", id |-> None, trace |-> <<"insert">>]
     ELSE
       [table |-> inserted, queue |-> <<Serialize(row)>> \o queue,
        result |-> "Ok", message |-> "", id |-> Some(row.scrape_id),
        trace |-> <<"insert", "lpush">>]

\* ------------------------------------------------------------------------
\* crawl
\* ------------------------------------------------------------------------
\* a bug: the provider is called for feed-based options as well
IsShopifyNever(crawl_options) == FALSE

\* line 130
IsShopify(crawl_options) == crawl_options.scrape_options = Some("Shopify")

crawl(table, queue, job, crawl_options, dataset_id, t, fail) ==
  LET site == IF IsShopify(crawl_options)
              THEN [result |-> "Ok", message |-> "", id |-> Some(NilId)]
              ELSE crawl_site(job, fail)
      posted == IF IsShopify(crawl_options) THEN << >> ELSE <<"post">>
      nj == IF site.result = "Ok" /\ ~IsShopify(crawl_options)
            THEN job + 1 ELSE job
  IN IF site.result = "Panic" THEN
       [table |-> table, queue |-> queue, result |-> "Panic",
        message |-> site.message, id |-> None, trace |-> posted,
        next_job |-> nj]
     ELSE IF site.result # "Ok" THEN
       [table |-> table, queue |-> queue, result |-> "BadRequest",
        message |-> "Could not crawl site: " \o site.message, id |-> None,
        trace |-> posted,
        next_job |-> nj]
     ELSE
       LET c == create_crawl_request(table, queue, crawl_options, dataset_id,
                                     site.id[1], t, fail)
       IN [table |-> c.table, queue |-> c.queue, result |-> c.result,
           message |-> c.message,
           id |-> IF c.result = "Ok" THEN site.id ELSE None,
           trace |-> posted \o c.trace, next_job |-> nj]

\* the steps of crawl(crawl_options, ..) that can fail
CrawlFailures(crawl_options) ==
  {"none", "create_pool", "insert", "redis_pool", "lpush"} \cup
    IF IsShopify(crawl_options) THEN {}
    ELSE {"post_send", "post_status", "post_json", "post_id"}

\* chrono::Utc::now(): the clock ticks once per operation
Now == ops

\* the timestamps update_next_crawl_at is called with: the time of the next
\* operation and the time of the one after it
Times == {Now + 1, Now + 2}

\* the job ids the operations keyed by job id are called with: the reserved
\* id, the ids handed out so far, and one id no request has
JobInputs == NilId..next_job

\* the statuses update_crawl_status is called with
StatusInputs == {"Scraping", "Completed"}

Called(op) == [NoRet EXCEPT !.op = op]

\* a call is one more operation; single-fault model: the storage, the queue
\* or the provider fails in at most one operation of a behaviour
Call(fail) ==
  /\ ops < MaxOps
  /\ ops' = ops + 1
  /\ fail # "none" => ~faulted
  /\ faulted' = (faulted \/ fail # "none")
  /\ UNCHANGED fetch_vars
  /\ UNCHANGED seg_vars
  /\ UNCHANGED recon

Crawl(crawl_options, dataset_id, fail) ==
  /\ Call(fail)
  /\ LET out == crawl(crawl_requests, scrape_queue, next_job, crawl_options,
                      dataset_id, Now, fail)
     IN /\ crawl_requests' = out.table
        /\ scrape_queue' = out.queue
        /\ next_job' = out.next_job
        /\ ret' = [Called("crawl") EXCEPT
                     !.dataset = Some(dataset_id),
                     !.options = Some(crawl_options), !.now = Some(Now),
                     !.result = out.result, !.message = out.message,
                     !.id = out.id, !.trace = out.trace]

\* ------------------------------------------------------------------------
\* get_crawl_request
\* ------------------------------------------------------------------------
\* .first(): the query has no ORDER BY, any matching row may come first
GetCrawlRequest(crawl_id, fail) ==
  /\ Call(fail)
  /\ UNCHANGED <<crawl_requests, scrape_queue, next_job>>
  /\ LET call == [Called("get_crawl_request") EXCEPT !.job = Some(crawl_id)]
         found == ByScrapeId(crawl_requests, crawl_id)
     IN IF fail = "pool" THEN
          ret' = [call EXCEPT !.result = "InternalServerError",
                              !.message = "pool"]
        ELSE IF fail = "query" THEN
          ret' = [call EXCEPT !.result = "InternalServerError",
                              !.message = "query"]
        ELSE IF found = {} THEN
          ret' = [call EXCEPT !.result = "InternalServerError",
                              !.message = "Record not found"]
        ELSE \E i \in found :
          ret' = [call EXCEPT !.rows = <<crawl_requests[i]>>]

\* ------------------------------------------------------------------------
\* get_crawl_request_by_dataset_id_query
\* ------------------------------------------------------------------------
GetCrawlRequestByDatasetId(dataset_id, fail) ==
  /\ Call(fail)
  /\ UNCHANGED <<crawl_requests, scrape_queue, next_job>>
  /\ LET call == [Called("get_crawl_request_by_dataset_id_query") EXCEPT
                    !.dataset = Some(dataset_id)]
         found == ByDataset(crawl_requests, dataset_id)
     IN IF fail = "pool" THEN
          ret' = [call EXCEPT !.result = "InternalServerError",
                              !.message = "pool"]
        ELSE IF fail = "query" THEN
          ret' = [call EXCEPT !.result = "InternalServerError",
                              !.message = "query"]
        ELSE IF found = {} THEN ret' = call
        ELSE \E i \in found :
          ret' = [call EXCEPT !.rows = <<crawl_requests[i]>>]

\* ------------------------------------------------------------------------
\* get_crawl_requests_to_rerun
\* ------------------------------------------------------------------------
\* a bug: a request due exactly now is not returned
DueBefore(r, t) == r.next_crawl_at < t

\* .filter(next_crawl_at.le(chrono::Utc::now().naive_utc()))
Due(r, t) == r.next_crawl_at <= t

GetCrawlRequestsToRerun(fail) ==
  /\ Call(fail)
  /\ UNCHANGED <<crawl_requests, scrape_queue, next_job>>
  /\ LET call == [Called("get_crawl_requests_to_rerun") EXCEPT
                    !.now = Some(Now)]
         IsDue(r) == Due(r, Now)
     IN IF fail = "pool" THEN
          ret' = [call EXCEPT !.result = "InternalServerError",
                              !.message = "pool"]
        ELSE IF fail = "query" THEN
          ret' = [call EXCEPT !.result = "InternalServerError",
                              !.message = "query"]
        ELSE ret' = [call EXCEPT !.rows = SelectSeq(crawl_requests, IsDue)]

\* ------------------------------------------------------------------------
\* update_crawl_status, update_next_crawl_at
\* ------------------------------------------------------------------------
UpdateColumn(op, crawl_id, column, value, fail) ==
  /\ Call(fail)
  /\ UNCHANGED <<scrape_queue, next_job>>
  /\ LET call == [Called(op) EXCEPT !.job = Some(crawl_id)]
     IN IF fail = "pool" THEN
          /\ ret' = [call EXCEPT !.result = "InternalServerError",
                                 !.message = "pool"]
          /\ UNCHANGED crawl_requests
        ELSE IF fail = "query" THEN
          /\ ret' = [call EXCEPT !.result = "InternalServerError",
                                 !.message = "query"]
          /\ UNCHANGED crawl_requests
        ELSE
          /\ ret' = call
          /\ crawl_requests' =
               UpdateWhere(crawl_requests,
                           ByScrapeId(crawl_requests, crawl_id),
                           column, value)

UpdateCrawlStatus(crawl_id, status, fail) ==
  UpdateColumn("update_crawl_status", crawl_id, "status", status, fail)

UpdateNextCrawlAt(crawl_id, next_crawl_at, fail) ==
  UpdateColumn("update_next_crawl_at", crawl_id, "next_crawl_at",
               next_crawl_at, fail)

\* ------------------------------------------------------------------------
\* update_scrape_id
\* ------------------------------------------------------------------------
\* .returning(..).get_result(): the first of the updated rows, an error
\* (diesel's NotFound) when the update matched no row
UpdateScrapeId(scrape_id, new_scrape_id, fail) ==
  /\ Call(fail)
  /\ UNCHANGED scrape_queue
  /\ next_job' = IF new_scrape_id = next_job THEN next_job + 1 ELSE next_job
  /\ LET call == [Called("update_scrape_id") EXCEPT !.job = Some(scrape_id)]
         found == ByScrapeId(crawl_requests, scrape_id)
         updated == UpdateWhere(crawl_requests, found, "scrape_id",
                                new_scrape_id)
     IN IF fail = "pool" THEN
          /\ ret' = [call EXCEPT !.result = "InternalServerError",
                                 !.message = "pool"]
          /\ UNCHANGED crawl_requests
        ELSE IF fail = "query" THEN
          /\ ret' = [call EXCEPT !.result = "InternalServerError",
                                 !.message = "query"]
          /\ UNCHANGED crawl_requests
        ELSE IF found = {} THEN
          /\ ret' = [call EXCEPT !.result = "InternalServerError",
                                 !.message = "Record not found"]
          /\ UNCHANGED crawl_requests
        ELSE
          /\ crawl_requests' = updated
          /\ \E i \in found : ret' = [call EXCEPT !.rows = <<updated[i]>>]

\* ------------------------------------------------------------------------
\* update_crawl_settings_for_dataset
\* ------------------------------------------------------------------------
\* the rows the select of lines 342-357 may return first
PrevCandidates(table, dataset_id) == ByDataset(table, dataset_id)

\* a bug: the previous options are dropped instead of merged
MergedOptionsNewOnly(crawl_options, prev) == crawl_options

\* lines 394-401
MergedOptions(crawl_options, prev) ==
  IF prev = None THEN crawl_options
  ELSE Merge(crawl_options, prev[1].crawl_options)

\* a bug: the options of the call are stored instead of the merged ones
SettingsUpdatesUnmerged(table, crawl_options, dataset_id, merged, fail) ==
  LET rows == ByDataset(table, dataset_id)
      t1 == IF crawl_options.site_url # None
            THEN UpdateWhere(table, rows, "url", crawl_options.site_url[1])
            ELSE table
      t2 == IF crawl_options.interval # None
            THEN UpdateWhere(t1, rows, "interval",
                             IntervalSecs(crawl_options.interval))
            ELSE t1
  IN [table |-> UpdateWhere(t2, rows, "crawl_options", crawl_options),
      result |-> "Ok", message |-> ""]

\* the three updates of lines 359-420, each on every row of the dataset;
\* a failed update leaves the earlier ones in place
SettingsUpdates(table, crawl_options, dataset_id, merged, fail) ==
  LET rows == ByDataset(table, dataset_id)
      setUrl == crawl_options.site_url # None
      setInterval == crawl_options.interval # None
      t1 == IF setUrl
            THEN UpdateWhere(table, rows, "url", crawl_options.site_url[1])
            ELSE table
      t2 == IF setInterval
            THEN UpdateWhere(t1, rows, "interval",
                             IntervalSecs(crawl_options.interval))
            ELSE t1
      t3 == UpdateWhere(t2, rows, "crawl_options", merged)
  IN IF setUrl /\ fail = "update_url" THEN
       [table |-> table, result |-> "InternalServerError",
        message |-> "Error updating url on crawl_requests"]
     ELSE IF setInterval /\ fail = "update_interval" THEN
       [table |-> t1, result |-> "InternalServerError",
        message |-> "Error updating interval on crawl_requests"]
     ELSE IF fail = "update_options" THEN
       [table |-> t2, result |-> "InternalServerError",
        message |-> "Error updating crawl options on crawl_requests"]
     ELSE [table |-> t3, result |-> "Ok", message |-> ""]

\* the steps of update_crawl_settings_for_dataset(crawl_options, ..) that
\* can fail; the POST of crawl is a step only when the merged options are
\* not feed-based
SettingsFailures(crawl_options) ==
  {"none", "create_pool", "insert", "redis_pool", "lpush",
   "post_send", "post_status", "post_json", "post_id",
   "pool", "select", "update_options"} \cup
    (IF crawl_options.site_url # None THEN {"update_url"} ELSE {}) \cup
    (IF crawl_options.interval # None THEN {"update_interval"} ELSE {})

UpdateCrawlSettingsForDataset(crawl_options, dataset_id, fail) ==
  /\ Call(fail)
  /\ LET call == [Called("update_crawl_settings_for_dataset") EXCEPT
                    !.dataset = Some(dataset_id),
                    !.options = Some(crawl_options), !.now = Some(Now),
                    \* history: the call before this one was the same call
                    \* and it succeeded
                    !.repeat = /\ ret.op = "update_crawl_settings_for_dataset"
                               /\ ret.result = "Ok"
                               /\ ret.dataset = Some(dataset_id)
                               /\ ret.options = Some(crawl_options)]
         cands == PrevCandidates(crawl_requests, dataset_id)
     IN IF fail = "pool" THEN
          /\ ret' = [call EXCEPT !.result = "InternalServerError",
                                 !.message = "pool"]
          /\ UNCHANGED <<crawl_requests, scrape_queue, next_job>>
        ELSE IF fail = "select" THEN
          /\ ret' = [call EXCEPT !.result = FromDieselError,
                                 !.message = "query"]
          /\ UNCHANGED <<crawl_requests, scrape_queue, next_job>>
        ELSE
          \E prev \in IF cands = {} THEN {None}
                      ELSE {Some(crawl_requests[i]) : i \in cands} :
            LET merged == MergedOptions(crawl_options, prev)
                upd == SettingsUpdates(crawl_requests, crawl_options,
                                       dataset_id, merged, fail)
                out == crawl(upd.table, scrape_queue, next_job, merged,
                             dataset_id, Now, fail)
            IN /\ fail \in CrawlFailures(merged) \cup
                           {"update_url", "update_interval", "update_options"}
               /\ IF upd.result # "Ok" THEN
                    /\ crawl_requests' = upd.table
                    /\ ret' = [call EXCEPT !.result = upd.result,
                                           !.message = upd.message]
                    /\ UNCHANGED <<scrape_queue, next_job>>
                  ELSE
                    /\ crawl_requests' = out.table
                    /\ scrape_queue' = out.queue
                    /\ next_job' = out.next_job
                    /\ ret' = [call EXCEPT !.result = out.result,
                                           !.message = out.message,
                                           !.trace = out.trace]

\* ------------------------------------------------------------------------
\* get_crawl_from_firecrawl
\* ------------------------------------------------------------------------
\* A URL is its scheme and the rest (host, path and query), here the number
\* of the page it addresses.
Schemes == {"https://", "http://"}
Pages == 1..MaxPages
Urls == [scheme : Schemes, rest : Pages]

Status == {"Scraping", "Completed", "Failed", "Cancelled"}

\* format!("{}/v1/crawl/{}", firecrawl_url, scrape_id): the job's first
\* page under the base URL of FIRECRAWL_URL (default https://api.firecrawl.dev)
FirstUrl(base) == [scheme |-> base, rest |-> 1]

\* next.replace("https://", "http://")
RewriteScheme(url) ==
  [url EXCEPT !.scheme = IF @ = "https://" THEN "http://" ELSE @]

\* The documents and counters of a page are tagged with the URL that serves
\* it, so that pages are told apart in the aggregate.
Stamp(url) == 2 * url.rest + (IF url.scheme = "https://" THEN 0 ELSE 1)
Document(url, slot) == [source_url |-> url, slot |-> slot]

\* data: Option<Vec<Option<Document>>>
PageData(url) ==
  { None,
    Some(<<Some(Document(url, 1))>>),
    Some(<<None, Some(Document(url, 2))>>) }

\* the IngestResult bodies the provider may serve at url
IngestResults(url) ==
  [status : Status, completed : {Stamp(url)}, total : {Stamp(url) + 10},
   credits_used : {Stamp(url) + 20}, expires_at : {Stamp(url) + 30},
   next : {None} \cup {Some(u) : u \in Urls}, data : PageData(url)]

NoPage ==
  [status |-> "Failed", completed |-> 0, total |-> 0, credits_used |-> 0,
   expires_at |-> 0, next |-> None, data |-> None]

\* what a GET of url may come to: a transport error, a non-success status,
\* an undecodable body, or an IngestResult
Responses(url) ==
  {[kind |-> k, page |-> NoPage] :
      k \in {"send_error", "bad_status", "bad_json"}} \cup
  {[kind |-> "ok", page |-> p] : p \in IngestResults(url)}

Unasked == [kind |-> "unasked", page |-> NoPage]

\* the provider answers the same URL the same way within one call
Answers(url) ==
  IF served[url] = Unasked THEN Responses(url) ELSE {served[url]}

NotFetched == [result |-> "none", message |-> "", value |-> None]

\* a bug: the aggregate carries the last page's own documents only
AggregateLastPageOnly(resp, docs) ==
  [status |-> resp.status, completed |-> resp.completed,
   total |-> resp.total, credits_used |-> resp.credits_used,
   expires_at |-> resp.expires_at, next |-> None, data |-> resp.data]

\* lines 522-531
Aggregate(resp, docs) ==
  [status |-> resp.status, completed |-> resp.completed,
   total |-> resp.total, credits_used |-> resp.credits_used,
   expires_at |-> resp.expires_at, next |-> None, data |-> Some(docs)]

\* unwrap_or_default
CurDocs(page) == IF page.data = None THEN << >> ELSE page.data[1]

Return(result, message, value) ==
  /\ pc' = "done"
  /\ fetched' = [result |-> result, message |-> message, value |-> value]

\* a bug: the HTTP status of the response is not looked at
FailedStatusUnchecked(r) == r.kind \in {"send_error", "bad_json"}

\* lines 469-492: the GET failed in transport, came back with a non-success
\* status, or its body is no IngestResult
Failed(r) == r.kind \in {"send_error", "bad_status", "bad_json"}

ErrorMessage(r) ==
  IF r.kind = "send_error" THEN "Error sending request to firecrawl"
  ELSE IF r.kind = "bad_status" THEN "Error getting response from firecrawl"
  ELSE "Error parsing response from firecrawl"

\* a bug: a job still being scraped is taken for a completed one
IsCompletedOrScraping(page) == page.status \in {"Completed", "Scraping"}

\* line 494
IsCompleted(page) == page.status = "Completed"

\* a bug: no guard against a cursor that repeats the page just fetched
StopsWithoutCursorOnly(page, url) == page.next = None

\* a bug: the cursor is compared with every URL fetched so far
StopsOnAnyUrlSeen(page, url) ==
  \/ page.next = None
  \/ RewriteScheme(page.next[1]) = url
  \/ \E i \in DOMAIN gets : RewriteScheme(page.next[1]) = gets[i]

\* lines 502-519: the page just fetched from url is the last one
Stops(page, url) ==
  \/ page.next = None
  \/ RewriteScheme(page.next[1]) = url

\* one iteration of the while loop of lines 468-520, and the return that
\* follows it when the loop ends
GetPage(r) ==
  /\ pc = "loop"
  /\ Len(gets) < MaxFetches
  /\ r \in Answers(firecrawl_url)
  /\ served' = [served EXCEPT ![firecrawl_url] = r]
  /\ gets' = Append(gets, firecrawl_url)
  /\ UNCHANGED lifecycle_vars
  /\ UNCHANGED seg_vars
  /\ UNCHANGED recon
  /\ IF Failed(r) THEN
       /\ Return("InternalServerError", ErrorMessage(r), None)
       /\ UNCHANGED <<firecrawl_url, collected_docs>>
     ELSE IF ~IsCompleted(r.page) THEN
       /\ Return("Ok", "", Some(r.page))
       /\ UNCHANGED <<firecrawl_url, collected_docs>>
     ELSE
       LET docs == collected_docs \o CurDocs(r.page)
       IN /\ collected_docs' = docs
          /\ IF Stops(r.page, firecrawl_url) THEN
               /\ Return("Ok", "", Some(Aggregate(r.page, docs)))
               /\ UNCHANGED firecrawl_url
             ELSE
               /\ firecrawl_url' = RewriteScheme(r.page.next[1])
               /\ UNCHANGED <<pc, fetched>>

\* ------------------------------------------------------------------------
\* chunk_html
\* ------------------------------------------------------------------------
\* A string is a sequence of tokens: an opening heading tag, a closing
\* heading tag, the opening tag of the element h1-x (no heading, but its
\* name starts like one), a text of one word, a text of six words, a space.
Tokens == {"<h1>", "</h1>", "<h1-x>", "hi", "one two three four five six", " "}

Strings(n) == UNION {[1..k -> Tokens] : k \in 0..n}

\* Regex (?i)<h[1-6].*?> : "<h", a digit 1 to 6, the shortest run of
\* characters that ends in ">"
IsMatch(token) == token \in {"<h1>", "<h1-x>"}

\* re.find_iter(s): the matches left to right; the match that is the i-th
\* token starts at offset i - 1 and ends at offset i
find_iter(s) ==
  LET RECURSIVE From(_)
      From(i) == IF i > Len(s) THEN << >>
                 ELSE IF IsMatch(s[i]) THEN <<i>> \o From(i + 1)
                 ELSE From(i + 1)
  IN From(1)

\* &html[from..to], offsets counted in tokens
Slice(s, from, to) == SubSeq(s, from + 1, to)

\* str::trim
trim(s) ==
  LET solid == {i \in DOMAIN s : s[i] # " "}
  IN IF solid = {} THEN << >>
     ELSE SubSeq(s, CHOOSE i \in solid : \A j \in solid : i <= j,
                    CHOOSE i \in solid : \A j \in solid : i >= j)

\* format!("{} {}", a, b)
Format(a, b) == a \o <<" ">> \o b

IsText(token) == token \in {"hi", "one two three four five six"}

WordsOf(token) == IF token = "hi" THEN 1 ELSE 6

\* convert_html_to_text(s).split_whitespace().count(), with
\* parse_operator::convert_html_to_text as the plain text of s: the markup
\* is stripped and separates words, texts that touch run into one another
WordCount(s) ==
  LET RECURSIVE Upto(_)
      Upto(i) ==
        IF i = 0 THEN 0
        ELSE Upto(i - 1) +
             (IF ~IsText(s[i]) THEN 0
              ELSE IF i > 1 /\ IsText(s[i - 1]) THEN WordsOf(s[i]) - 1
              ELSE WordsOf(s[i]))
  IN Upto(Len(s))

\* extract_first_heading: the text nodes of the first h1..h6 element of the
\* parsed fragment. The element ends at a closing heading tag, at the next
\* opening heading tag or at the end of the fragment; an h1-x element in it
\* contributes its text.
extract_first_heading(s) ==
  LET opens == {i \in DOMAIN s : s[i] = "<h1>"}
  IN IF opens = {} THEN << >>
     ELSE LET start == CHOOSE i \in opens : \A j \in opens : i <= j
              ends == {j \in DOMAIN s :
                         j > start /\ s[j] \in {"<h1>", "</h1>"}}
              stop == IF ends = {} THEN Len(s) + 1
                      ELSE CHOOSE i \in ends : \A j \in ends : i <= j
              IsTextNode(token) == IsText(token) \/ token = " "
          IN SelectSeq(SubSeq(s, start + 1, stop - 1), IsTextNode)

\* a bug: a short chunk is pushed like any other
IsLongAlways(chunk) == TRUE

\* lines 611-615
IsLong(chunk) == WordCount(chunk) > 5

\* lines 603-609 and 632-638: the chunk trimmed, the short chunk taken and
\* put before it
WithShort(chunk, short) ==
  IF short # None THEN Format(short[1], trim(chunk)) ELSE trim(chunk)

Chunk(heading, chunk) == [heading |-> heading, html |-> chunk]

\* one iteration of the for loop of lines 597-623
ScanMatch ==
  /\ seg_pc = "scan"
  /\ caps # << >>
  /\ LET cap == Head(caps)
         start == cap - 1
         upto == IF last_end # start
                 THEN current_chunk \o Slice(html, last_end, start)
                 ELSE current_chunk
         merged == WithShort(upto, short_chunk)
     IN /\ IF upto # << >> THEN
             IF IsLong(merged) THEN
               /\ chunks' = Append(chunks,
                                   Chunk(extract_first_heading(merged), merged))
               /\ short_chunk' = None
             ELSE
               /\ short_chunk' = Some(merged)
               /\ UNCHANGED chunks
           ELSE UNCHANGED <<chunks, short_chunk>>
        /\ current_chunk' = <<html[cap]>>
        /\ last_end' = cap
        /\ caps' = Tail(caps)
  /\ UNCHANGED <<seg_pc, html>>
  /\ UNCHANGED lifecycle_vars
  /\ UNCHANGED fetch_vars
  /\ UNCHANGED recon

\* lines 625-647: the tail, the flush and the return
Flush ==
  /\ seg_pc = "scan"
  /\ caps = << >>
  /\ LET upto == IF last_end < Len(html)
                 THEN current_chunk \o Slice(html, last_end, Len(html))
                 ELSE current_chunk
         merged == WithShort(upto, short_chunk)
     IN IF upto # << >> THEN
          /\ chunks' = Append(chunks,
                              Chunk(extract_first_heading(merged), merged))
          /\ current_chunk' = merged
          /\ short_chunk' = None
        ELSE IF short_chunk # None THEN
          /\ chunks' = Append(chunks,
                              Chunk(extract_first_heading(short_chunk[1]),
                                    short_chunk[1]))
          /\ UNCHANGED <<current_chunk, short_chunk>>
        ELSE UNCHANGED <<chunks, current_chunk, short_chunk>>
  /\ seg_pc' = "done"
  /\ UNCHANGED <<html, caps, last_end>>
  /\ UNCHANGED lifecycle_vars
  /\ UNCHANGED fetch_vars
  /\ UNCHANGED recon

SegIdle ==
  /\ seg_pc = "idle"
  /\ html = << >>
  /\ caps = << >>
  /\ chunks = << >>
  /\ current_chunk = << >>
  /\ last_end = 0
  /\ short_chunk = None

\* ------------------------------------------------------------------------
\* update_crawl_settings_for_dataset, two calls at once: every statement
\* sent to the storage, the request to the provider and the push on the
\* queue are steps of their own, no transaction or lock spans them
\* ------------------------------------------------------------------------
Calls == {"c1", "c2"}

NoCall ==
  [pc |-> "idle", options |-> None, dataset |-> None, prev |-> None,
   merged |-> None, scrape_id |-> None, row |-> None]

\* a call with its arguments, about to run its select
Entered(crawl_options, dataset_id) ==
  [NoCall EXCEPT !.pc = "select", !.options = Some(crawl_options),
                 !.dataset = Some(dataset_id)]

\* the step of call c at pc leaves the other variables of the model alone
Step(c, at) ==
  /\ recon[c].pc = at
  /\ UNCHANGED <<ops, faulted, ret>>
  /\ UNCHANGED fetch_vars
  /\ UNCHANGED seg_vars

\* lines 342-357
SelectPrev(c) ==
  /\ Step(c, "select")
  /\ LET cands == PrevCandidates(crawl_requests, recon[c].dataset[1])
     IN \E prev \in IF cands = {} THEN {None}
                    ELSE {Some(crawl_requests[i]) : i \in cands} :
          recon' = [recon EXCEPT ![c].prev = prev, ![c].pc = "update_url"]
  /\ UNCHANGED <<crawl_requests, scrape_queue, next_job>>

\* lines 359-371
UpdateUrl(c) ==
  /\ Step(c, "update_url")
  /\ LET o == recon[c].options[1]
         rows == ByDataset(crawl_requests, recon[c].dataset[1])
     IN crawl_requests' =
          IF o.site_url # None
          THEN UpdateWhere(crawl_requests, rows, "url", o.site_url[1])
          ELSE crawl_requests
  /\ recon' = [recon EXCEPT ![c].pc = "update_interval"]
  /\ UNCHANGED <<scrape_queue, next_job>>

\* lines 373-392
UpdateInterval(c) ==
  /\ Step(c, "update_interval")
  /\ LET o == recon[c].options[1]
         rows == ByDataset(crawl_requests, recon[c].dataset[1])
     IN crawl_requests' =
          IF o.interval # None
          THEN UpdateWhere(crawl_requests, rows, "interval",
                           IntervalSecs(o.interval))
          ELSE crawl_requests
  /\ recon' = [recon EXCEPT ![c].pc = "update_options"]
  /\ UNCHANGED <<scrape_queue, next_job>>

\* lines 394-420
UpdateOptions(c) ==
  /\ Step(c, "update_options")
  /\ LET merged == MergedOptions(recon[c].options[1], recon[c].prev)
         rows == ByDataset(crawl_requests, recon[c].dataset[1])
     IN /\ crawl_requests' =
             UpdateWhere(crawl_requests, rows, "crawl_options", merged)
        /\ recon' = [recon EXCEPT ![c].merged = Some(merged),
                                  ![c].pc = "crawl_site"]
  /\ UNCHANGED <<scrape_queue, next_job>>

\* lines 130-136, within the crawl of lines 422-428
CrawlSite(c) ==
  /\ Step(c, "crawl_site")
  /\ LET feed == IsShopify(recon[c].merged[1])
         site == crawl_site(next_job, "none")
     IN /\ recon' = [recon EXCEPT
                       ![c].scrape_id = IF feed THEN Some(NilId) ELSE site.id,
                       ![c].pc = "insert"]
        /\ next_job' = IF feed THEN next_job ELSE next_job + 1
  /\ UNCHANGED <<crawl_requests, scrape_queue>>

\* lines 245-268
InsertRequest(c) ==
  /\ Step(c, "insert")
  /\ LET row == NewCrawlRequest(crawl_requests, recon[c].merged[1],
                                recon[c].dataset[1], recon[c].scrape_id[1],
                                Now)
     IN /\ crawl_requests' = Insert(crawl_requests, row)
        /\ recon' = [recon EXCEPT ![c].row = Some(row), ![c].pc = "lpush"]
  /\ UNCHANGED <<scrape_queue, next_job>>

\* lines 270-284
Lpush(c) ==
  /\ Step(c, "lpush")
  /\ scrape_queue' = <<Serialize(recon[c].row[1])>> \o scrape_queue
  /\ recon' = [recon EXCEPT ![c].pc = "done"]
  /\ UNCHANGED <<crawl_requests, next_job>>

ReconIdle == recon = [c \in Calls |-> NoCall]

LifecycleInit ==
  /\ crawl_requests = << >>
  /\ scrape_queue = << >>
  /\ next_job = 1
  /\ ops = 0
  /\ faulted = FALSE
  /\ ret = NoRet

FetchIdle ==
  /\ pc = "idle"
  /\ firecrawl_url = FirstUrl("https://")
  /\ collected_docs = << >>
  /\ served = [u \in Urls |-> Unasked]
  /\ gets = << >>
  /\ fetched = NotFetched

Init == LifecycleInit /\ FetchIdle /\ SegIdle /\ ReconIdle

QueryFailures == {"none", "pool", "query"}

Next ==
  \/ \E o \in OptionInputs, d \in Datasets :
        \E f \in CrawlFailures(o) : Crawl(o, d, f)
  \/ \E o \in OptionInputs, d \in Datasets :
        \E f \in SettingsFailures(o) : UpdateCrawlSettingsForDataset(o, d, f)
  \/ \E j \in JobInputs, f \in QueryFailures : GetCrawlRequest(j, f)
  \/ \E d \in Datasets, f \in QueryFailures :
        GetCrawlRequestByDatasetId(d, f)
  \/ \E f \in QueryFailures : GetCrawlRequestsToRerun(f)
  \/ \E j \in JobInputs, s \in StatusInputs, f \in QueryFailures :
        UpdateCrawlStatus(j, s, f)
  \/ \E j \in JobInputs, t \in Times, f \in QueryFailures :
        UpdateNextCrawlAt(j, t, f)
  \/ \E j \in JobInputs, n \in {NilId, next_job}, f \in QueryFailures :
        UpdateScrapeId(j, n, f)

Spec == Init /\ [][Next]_vars

\* get_crawl_from_firecrawl called once, the loop about to start
FetchInit ==
  /\ LifecycleInit
  /\ pc = "loop"
  /\ \E base \in Schemes : firecrawl_url = FirstUrl(base)
  /\ collected_docs = << >>
  /\ served = [u \in Urls |-> Unasked]
  /\ gets = << >>
  /\ fetched = NotFetched
  /\ SegIdle
  /\ ReconIdle

FetchNext == \E r \in Answers(firecrawl_url) : GetPage(r)

FetchSpec == FetchInit /\ [][FetchNext]_vars

\* chunk_html called once on some input, the scan about to start
SegInit ==
  /\ LifecycleInit
  /\ FetchIdle
  /\ seg_pc = "scan"
  /\ html \in Strings(MaxHtml)
  /\ caps = find_iter(html)
  /\ chunks = << >>
  /\ current_chunk = << >>
  /\ last_end = 0
  /\ short_chunk = None
  /\ ReconIdle

SegNext == ScanMatch \/ Flush

SegSpec == SegInit /\ [][SegNext]_vars

\* two calls of update_crawl_settings_for_dataset entered, on a table that
\* is empty or holds the request of one crawl
ReconInit ==
  /\ ops = 0
  /\ faulted = FALSE
  /\ ret = NoRet
  /\ \/ /\ crawl_requests = << >>
        /\ scrape_queue = << >>
        /\ next_job = 1
     \/ \E o \in OptionInputs, d \in Datasets :
          LET out == crawl(<< >>, << >>, 1, o, d, Now, "none")
          IN /\ crawl_requests = out.table
             /\ scrape_queue = out.queue
             /\ next_job = out.next_job
  /\ FetchIdle
  /\ SegIdle
  /\ recon \in [Calls -> {Entered(o, d) : o \in OptionInputs, d \in Datasets}]

ReconNext ==
  \E c \in Calls :
    \/ SelectPrev(c)
    \/ UpdateUrl(c)
    \/ UpdateInterval(c)
    \/ UpdateOptions(c)
    \/ CrawlSite(c)
    \/ InsertRequest(c)
    \/ Lpush(c)

ReconSpec == ReconInit /\ [][ReconNext]_vars

\* ------------------------------------------------------------------------
\* Properties of get_crawl_from_firecrawl (checked under FetchSpec)
\* ------------------------------------------------------------------------
\* the response to the i-th GET
Got(i) == served[gets[i]]

Returned == pc = "done"

RECURSIVE DocsOfPages(_)
\* the document lists of the pages fetched first to n-th, one after another
DocsOfPages(n) ==
  IF n = 0 THEN << >>
  ELSE DocsOfPages(n - 1) \o
         (IF Got(n).page.data = None THEN << >> ELSE Got(n).page.data[1])

\* every GET returned a Completed page and the last page has no cursor
CompletedChain ==
  /\ gets # << >>
  /\ \A i \in DOMAIN gets :
       Got(i).kind = "ok" /\ Got(i).page.status = "Completed"
  /\ Got(Len(gets)).page.next = None

\* C2: when the job is served as a chain of N Completed pages ending in a
\* page without cursor, the call returns Ok with one IngestResult whose data
\* is the pages' document lists concatenated in fetch order (absent slots
\* kept), whose next is cleared and whose status, completed, total,
\* credits_used and expires_at are those of the last page.
C2_ChainAggregated ==
  (Returned /\ CompletedChain) =>
     LET last == Got(Len(gets)).page
     IN /\ fetched.result = "Ok"
        /\ fetched.value # None
        /\ fetched.value[1].data = Some(DocsOfPages(Len(gets)))
        /\ fetched.value[1].next = None
        /\ fetched.value[1].status = last.status
        /\ fetched.value[1].completed = last.completed
        /\ fetched.value[1].total = last.total
        /\ fetched.value[1].credits_used = last.credits_used
        /\ fetched.value[1].expires_at = last.expires_at

\* three pages, an absent slot among the documents
C2_Witness ==
  /\ Returned /\ CompletedChain
  /\ Len(gets) = 3
  /\ Len(DocsOfPages(3)) >= 4
  /\ \E i \in DOMAIN DocsOfPages(3) : DocsOfPages(3)[i] = None

\* the cursor of the i-th page, its https:// made http://, is the URL the
\* page was fetched from
CursorRepeats(i) ==
  /\ Got(i).kind = "ok"
  /\ Got(i).page.status = "Completed"
  /\ Got(i).page.next # None
  /\ Got(i).page.next[1].rest = gets[i].rest
  /\ gets[i].scheme = "http://"
  /\ Got(i).page.next[1].scheme \in {"https://", "http://"}

\* C3: a Completed page whose rewritten next cursor equals the URL just
\* fetched is the last page fetched: no GET follows it and the call returns
\* the aggregate.
C3_CycleGuard ==
  \A i \in DOMAIN gets :
    CursorRepeats(i) =>
      /\ i = Len(gets)
      /\ Returned
      /\ fetched.result = "Ok"
      /\ fetched.value # None
      /\ fetched.value[1].next = None
      /\ fetched.value[1].data = Some(collected_docs)

\* the second page names itself as next, with the https scheme
C3_Witness ==
  /\ Len(gets) = 2
  /\ CursorRepeats(2)
  /\ Got(2).page.next[1].scheme = "https://"
  /\ Returned

\* C4: a page whose status is not Completed ends the call at once: it is
\* returned as received, as an Ok result, with its own data and cursor and
\* none of the documents of the earlier pages.
C4_NotCompletedAsIs ==
  \A i \in DOMAIN gets :
    (Got(i).kind = "ok" /\ Got(i).page.status # "Completed") =>
      /\ i = Len(gets)
      /\ Returned
      /\ fetched = [result |-> "Ok", message |-> "",
                    value |-> Some(Got(i).page)]

\* a later page is not completed, after documents were accumulated
C4_Witness ==
  /\ Len(gets) = 2
  /\ Got(2).kind = "ok"
  /\ Got(2).page.status = "Scraping"
  /\ Got(2).page.next # None
  /\ Got(2).page.data # None
  /\ collected_docs # << >>
  /\ Returned

\* C5: a GET that fails in transport, by its status or by its body ends the
\* call with an error and no IngestResult, whatever was accumulated before.
C5_ErrorNoPartial ==
  \A i \in DOMAIN gets :
    Got(i).kind # "ok" =>
      /\ i = Len(gets)
      /\ Returned
      /\ fetched.result = "InternalServerError"
      /\ fetched.value = None

\* the second GET comes back with a non-success status
C5_Witness ==
  /\ Len(gets) = 2
  /\ Got(2).kind = "bad_status"
  /\ collected_docs # << >>
  /\ Returned

\* ------------------------------------------------------------------------
\* Properties of the lifecycle operations (checked under Spec)
\* ------------------------------------------------------------------------
Submitted ==
  /\ ret.op \in {"crawl", "update_crawl_settings_for_dataset"}
  /\ ret.result = "Ok"

\* the request the last operation inserted
Newest == crawl_requests[Len(crawl_requests)]

\* C1: the request a successful submission persists has status Pending and
\* next_crawl_at equal to the time of the call, whatever the options
\* (interval set or not, feed-based or not) and the dataset.
C1_PendingDueNow ==
  Submitted =>
     /\ crawl_requests # << >>
     /\ Newest.status = "Pending"
     /\ Newest.next_crawl_at = ret.now[1]
     /\ Newest.dataset_id = ret.dataset[1]

\* a weekly crawl submitted after time has passed
C1_Witness ==
  /\ ret.op = "crawl"
  /\ ret.result = "Ok"
  /\ ret.now = Some(2)
  /\ ret.options[1].interval = Some("Weekly")
  /\ Newest.interval = 60 * 60 * 24 * 7

\* C6 (as claimed): no two persisted requests have the same dataset_id.
C6_OnePerDataset ==
  \A i, j \in Indices(crawl_requests) :
    crawl_requests[i].dataset_id = crawl_requests[j].dataset_id => i = j

\* C7: a successful update_crawl_settings_for_dataset that repeats the
\* successful call just before it (same options, same dataset) leaves the
\* crawl_options of every request of the dataset as the first call left
\* them, and the request it inserts carries the crawl_options of the
\* request the first call inserted.
C7_ReconfigureTwice ==
  [][(/\ ret'.op = "update_crawl_settings_for_dataset"
      /\ ret'.result = "Ok"
      /\ ret'.repeat)
     => /\ \A j \in ByDataset(crawl_requests, ret'.dataset[1]) :
             crawl_requests'[j].crawl_options = crawl_requests[j].crawl_options
        /\ crawl_requests'[Len(crawl_requests')].crawl_options =
             crawl_requests[Len(crawl_requests)].crawl_options
    ]_vars

\* the second of two equal calls, on a dataset that had a request before
\* the first one, whose options the calls leave partly unset
C7_Witness ==
  /\ ret.op = "update_crawl_settings_for_dataset"
  /\ ret.result = "Ok"
  /\ ret.repeat
  /\ Cardinality(ByDataset(crawl_requests, ret.dataset[1])) = 3
  /\ Newest.crawl_options # ret.options[1]

\* C8: a successful update_crawl_settings_for_dataset(options, dataset)
\* makes merged = merge(options, previous options) (options itself when the
\* dataset had no request) the crawl_options of every request of the dataset
\* and submits a crawl of merged: one request more, Pending, built from
\* merged, and its payload pushed on the queue.
C8_ReconfigureSubmits ==
  [][(/\ ret'.op = "update_crawl_settings_for_dataset"
      /\ ret'.result = "Ok"
      /\ ops' = ops + 1)
     => LET o == ret'.options[1]
            d == ret'.dataset[1]
            had == ByDataset(crawl_requests, d)
            new == crawl_requests'[Len(crawl_requests')]
        IN \E merged \in
               IF had = {} THEN {o}
               ELSE {[f \in DOMAIN o |->
                        IF o[f] # None THEN o[f]
                        ELSE crawl_requests[i].crawl_options[f]] : i \in had} :
             /\ Len(crawl_requests') = Len(crawl_requests) + 1
             /\ \A i \in ByDataset(crawl_requests', d) :
                  crawl_requests'[i].crawl_options = merged
             /\ new.dataset_id = d
             /\ new.status = "Pending"
             /\ new.crawl_options = merged
             /\ new.url = (IF merged.site_url = None THEN ""
                           ELSE merged.site_url[1])
             /\ new.interval = IntervalSecs(merged.interval)
             /\ scrape_queue' = <<Serialize(new)>> \o scrape_queue
    ]_vars

\* settings updated on a dataset that has a request with other options
C8_Witness ==
  /\ ret.op = "update_crawl_settings_for_dataset"
  /\ ret.result = "Ok"
  /\ Cardinality(ByDataset(crawl_requests, ret.dataset[1])) = 2
  /\ Newest.crawl_options # ret.options[1]
  /\ Len(scrape_queue) = 2

FeedBased(o) == o.scrape_options = Some("Shopify")

Count(trace, event) ==
  Cardinality({i \in DOMAIN trace : trace[i] = event})

\* C9: crawl with feed-based options never calls the provider, and on
\* success persists, enqueues and returns the all-zero id; with other
\* options it calls the provider once, before the insert, and on success
\* the persisted and the returned id are the one the provider handed out.
C9_FeedSkipsProvider ==
  ret.op = "crawl" =>
     IF FeedBased(ret.options[1]) THEN
       /\ Count(ret.trace, "post") = 0
       /\ ret.result = "Ok" =>
            /\ ret.id = Some(NilId)
            /\ Newest.scrape_id = NilId
            /\ scrape_queue[1].json.scrape_id = NilId
     ELSE
       /\ Count(ret.trace, "post") = 1
       /\ ret.trace[1] = "post"
       /\ ret.result = "Ok" =>
            /\ ret.id = Some(next_job - 1)
            /\ Newest.scrape_id = next_job - 1
            /\ scrape_queue[1].json.scrape_id = next_job - 1

\* a feed-based crawl submitted after a crawl the provider ran
C9_Witness ==
  /\ ret.op = "crawl"
  /\ ret.result = "Ok"
  /\ FeedBased(ret.options[1])
  /\ Len(crawl_requests) = 2
  /\ crawl_requests[1].scrape_id = 1

\* the outcomes reported when the storage connection or a query fails
StorageFailure == {"InternalServerError"}

NotFound ==
  /\ ret.op \in {"get_crawl_request", "update_scrape_id"}
  /\ ret.message = "Record not found"

\* C10 (as claimed): when no request has the job id, get_crawl_request and
\* update_scrape_id report an outcome other than the one reported when the
\* storage connection or the query fails.
C10_NotFoundDistinct == NotFound => ret.result \notin StorageFailure

\* the messages of the failures to reach the storage, the queue or the
\* provider: no pooled connection, a query or a command that did not get
\* through, a POST that could not be sent
TransportFailure ==
  {"pool", "query", "redis pool", "redis",
   "Error updating url on crawl_requests",
   "Error updating interval on crawl_requests",
   "Error updating crawl options on crawl_requests",
   "Could not crawl site: Error sending request to firecrawl"}

\* C11 (as claimed): an operation that fails to reach the storage, the queue
\* or the provider returns an internal-server error, never a bad request,
\* and has run the failed step once.
C11_TransportInternal ==
  ret.message \in TransportFailure =>
     /\ ret.result = "InternalServerError"
     /\ Count(ret.trace, "post") <= 1
     /\ Count(ret.trace, "insert") <= 1

\* the columns of an existing request that a step leaves alone
Kept(i, columns) ==
  \A c \in columns : crawl_requests'[i][c] = crawl_requests[i][c]

\* C12 (as claimed): no request is ever deleted, and on an existing request
\* no operation changes id, url, interval, dataset_id, created_at or
\* attempt_number.
C12_FrameAsClaimed ==
  [][/\ Len(crawl_requests') >= Len(crawl_requests)
     /\ \A i \in Indices(crawl_requests) :
          Kept(i, {"id", "url", "interval", "dataset_id", "created_at",
                   "attempt_number"})
    ]_vars

\* C12 (amended): no request is ever deleted; on an existing request no
\* operation changes id, dataset_id, created_at or attempt_number, and url
\* and interval are changed by update_crawl_settings_for_dataset alone, on
\* the requests of its dataset, when its options set site_url (url) or
\* interval (interval).
C12_Frame ==
  [][/\ Len(crawl_requests') >= Len(crawl_requests)
     /\ \A i \in Indices(crawl_requests) :
          /\ Kept(i, {"id", "dataset_id", "created_at", "attempt_number"})
          /\ ~Kept(i, {"url"}) =>
               /\ ret'.op = "update_crawl_settings_for_dataset"
               /\ ret'.dataset = Some(crawl_requests[i].dataset_id)
               /\ ret'.options[1].site_url # None
          /\ ~Kept(i, {"interval"}) =>
               /\ ret'.op = "update_crawl_settings_for_dataset"
               /\ ret'.dataset = Some(crawl_requests[i].dataset_id)
               /\ ret'.options[1].interval # None
    ]_vars

\* a feed-based request, marked Completed, then given another url and a
\* monthly interval by update_crawl_settings_for_dataset
C12_Witness ==
  /\ ret.op = "update_crawl_settings_for_dataset"
  /\ ret.result = "Ok"
  /\ Len(crawl_requests) = 2
  /\ crawl_requests[1].created_at = 0
  /\ crawl_requests[1].status = "Completed"
  /\ crawl_requests[1].url = "b"
  /\ crawl_requests[1].interval = 60 * 60 * 24 * 30
  /\ crawl_requests[1].crawl_options.scrape_options = Some("Shopify")

\* the i-th GET is one the call ends on: it failed, its page is not
\* Completed, has no cursor, or has a cursor that names, once its https://
\* is made http://, the URL the page was fetched from
EndsCall(i) ==
  \/ Got(i).kind # "ok"
  \/ Got(i).page.status # "Completed"
  \/ Got(i).page.next = None
  \/ CursorRepeats(i)

\* C13: get_crawl_from_firecrawl has returned exactly when the GET it made
\* last failed, or gave a page that is not Completed, has no cursor, or has
\* a cursor that repeats the URL just fetched; no earlier GET was such a
\* one. So as long as Completed pages name one another in a cycle through
\* two or more URLs the call goes on fetching and does not return.
C13_StopsExactly ==
  /\ Returned <=> (gets # << >> /\ EndsCall(Len(gets)))
  /\ \A i \in DOMAIN gets : i < Len(gets) => ~EndsCall(i)

\* two Completed pages that name each other: the first URL is fetched again
\* and the call has not returned
C13_Witness ==
  /\ pc = "loop"
  /\ Len(gets) = 3
  /\ gets[1] # gets[2]
  /\ gets[3] = gets[1]
  /\ firecrawl_url = gets[2]
  /\ Len(collected_docs) >= 3

\* C14: a successful get_crawl_requests_to_rerun returns exactly the
\* persisted requests whose next_crawl_at is at or before the time of the
\* call, each once, whatever their status and dataset, and no request whose
\* next_crawl_at is after it.
C14_ListDue ==
  (ret.op = "get_crawl_requests_to_rerun" /\ ret.result = "Ok") =>
     LET due == {i \in Indices(crawl_requests) :
                   crawl_requests[i].next_crawl_at <= ret.now[1]}
     IN /\ \A i \in due : \E k \in DOMAIN ret.rows :
               ret.rows[k] = crawl_requests[i]
        /\ \A k \in DOMAIN ret.rows : \E i \in due :
               ret.rows[k] = crawl_requests[i]
        /\ Len(ret.rows) = Cardinality(due)

\* a request whose next_crawl_at was moved to the very time of the call
C14_Witness ==
  /\ ret.op = "get_crawl_requests_to_rerun"
  /\ ret.result = "Ok"
  /\ Len(ret.rows) = 1
  /\ ret.rows[1].next_crawl_at = ret.now[1]
  /\ ret.rows[1].created_at < ret.now[1]

\* ------------------------------------------------------------------------
\* Properties of chunk_html (checked under SegSpec)
\* ------------------------------------------------------------------------
Segmented == seg_pc = "done"

\* an opening tag of a heading element, h1 to h6
IsHeadingTag(token) == token = "<h1>"

RECURSIVE Fragments(_)
\* the candidate fragments of s: what comes before the first opening heading
\* tag, then from each opening heading tag to just before the next one
Fragments(s) ==
  IF s = << >> THEN << >>
  ELSE LET later == {i \in 2..Len(s) : IsHeadingTag(s[i])}
       IN IF later = {} THEN <<s>>
          ELSE LET next == CHOOSE i \in later : \A j \in later : i <= j
               IN <<SubSeq(s, 1, next - 1)>> \o
                  Fragments(SubSeq(s, next, Len(s)))

RECURSIVE Joined(_)
\* the fragments, each trimmed, joined by one space
Joined(frags) ==
  IF Len(frags) = 0 THEN << >>
  ELSE IF Len(frags) = 1 THEN trim(frags[1])
  ELSE Joined(SubSeq(frags, 1, Len(frags) - 1)) \o <<" ">> \o
       trim(frags[Len(frags)])

\* every fragment of s, the ones before it merged into it, is short
AllShort(s) ==
  \A k \in 1..Len(Fragments(s)) :
    WordCount(Joined(SubSeq(Fragments(s), 1, k))) <= 5

\* C15 (as claimed): for an input with fragments that are all short, also
\* when merged with the ones before, nothing is pushed during the scan and
\* chunk_html returns one chunk: all fragments in order, each trimmed, joined
\* by one space, with the text of its first heading element as heading.
C15_AllShortOneChunk ==
  (html # << >> /\ AllShort(html)) =>
     /\ seg_pc = "scan" => chunks = << >>
     /\ Segmented =>
          chunks = <<Chunk(extract_first_heading(Joined(Fragments(html))),
                           Joined(Fragments(html)))>>

\* C16 (as claimed): chunk_html returns no chunk for the empty input, and
\* for a non-empty input without opening heading tag one chunk, with empty
\* heading, whose html is the input trimmed.
C16_EmptyOrNoHeading ==
  Segmented =>
     /\ html = << >> => chunks = << >>
     /\ (html # << >> /\ \A i \in DOMAIN html : ~IsHeadingTag(html[i])) =>
          chunks = <<Chunk(<< >>, trim(html))>>

IsPrefix(a, b) == Len(a) <= Len(b) /\ SubSeq(b, 1, Len(a)) = a

\* C17: a chunk pushed during the scan has more than 5 words; a chunk of 5
\* words or fewer is held instead, and what is held comes, followed by one
\* space, first in the chunk pushed or held next; only the chunk the flush
\* pushes may be short.
C17_ShortCarriedForward ==
  [][/\ (Len(chunks') > Len(chunks) /\ seg_pc' = "scan") =>
          WordCount(chunks'[Len(chunks')].html) > 5
     /\ (short_chunk' # None /\ short_chunk' # short_chunk) =>
          /\ WordCount(short_chunk'[1]) <= 5
          /\ chunks' = chunks
     /\ (short_chunk # None /\ short_chunk' # short_chunk) =>
          LET held == short_chunk[1] \o <<" ">>
          IN IF short_chunk' # None THEN IsPrefix(held, short_chunk'[1])
             ELSE /\ Len(chunks') = Len(chunks) + 1
                  /\ IsPrefix(held, chunks'[Len(chunks')].html)
     /\ Len(chunks') <= Len(chunks) + 1
     /\ \A i \in DOMAIN chunks : chunks'[i] = chunks[i]
    ]_vars

\* a short fragment held and pushed with the long one after it, and a short
\* tail pushed by the flush
C17_Witness ==
  /\ Segmented
  /\ Len(chunks) = 2
  /\ chunks[1].html = <<"hi", " ", "<h1>", "one two three four five six">>
  /\ chunks[2].html = <<"<h1>", "hi">>
  /\ WordCount(chunks[2].html) <= 5

\* ------------------------------------------------------------------------
\* More properties of get_crawl_from_firecrawl (checked under FetchSpec)
\* ------------------------------------------------------------------------
\* the call returned an aggregate, and the cursor of the page fetched last
\* names that very page, under either scheme
LastPageRepeated ==
  /\ Returned
  /\ fetched.result = "Ok"
  /\ \A i \in DOMAIN gets : Got(i).page.status = "Completed"
  /\ Got(Len(gets)).page.next # None
  /\ Got(Len(gets)).page.next[1].rest = gets[Len(gets)].rest

\* the documents of the aggregate, absent slots left out
AggregateDocs ==
  LET Present(d) == d # None
  IN SelectSeq(fetched.value[1].data[1], Present)

\* C18 (as claimed): when the page fetched last repeats itself as next, no
\* document of a page is in the aggregate twice, whatever the scheme of the
\* first URL.
C18_RepeatedPageOnce ==
  LastPageRepeated =>
     \A a, b \in DOMAIN AggregateDocs :
        (/\ AggregateDocs[a][1].source_url.rest =
              AggregateDocs[b][1].source_url.rest
         /\ AggregateDocs[a][1].slot = AggregateDocs[b][1].slot) => a = b

\* ------------------------------------------------------------------------
\* More properties of the lifecycle operations (checked under Spec)
\* ------------------------------------------------------------------------
KeyedByJob ==
  {"update_crawl_status", "update_next_crawl_at", "update_scrape_id"}

\* the requests a step changes
Changed ==
  {i \in Indices(crawl_requests) : crawl_requests'[i] # crawl_requests[i]}

\* C19 (as claimed): when no operation has failed, update_crawl_status,
\* update_next_crawl_at and update_scrape_id each change at most one
\* persisted request, the ids of feed-based submissions included, and so no
\* requests of two datasets.
C19_JobIdOneRequest ==
  [][(ret'.op \in KeyedByJob /\ ~faulted') => Cardinality(Changed) <= 1]_vars

\* C20 (as claimed): a crawl that returns an error leaves the table and the
\* queue as they were; a crawl that succeeds has inserted one request and
\* then pushed one payload, the serialized copy of that request.
C20_SubmitAllOrNothing ==
  [][ret'.op = "crawl" =>
       IF ret'.result # "Ok" THEN
         /\ crawl_requests' = crawl_requests
         /\ scrape_queue' = scrape_queue
       ELSE
         /\ Len(crawl_requests') = Len(crawl_requests) + 1
         /\ SubSeq(crawl_requests', 1, Len(crawl_requests)) = crawl_requests
         /\ scrape_queue' =
              <<Serialize(crawl_requests'[Len(crawl_requests')])>> \o
                scrape_queue
         /\ Count(ret'.trace, "insert") = 1
         /\ Count(ret'.trace, "lpush") = 1
         /\ ret'.trace[Len(ret'.trace)] = "lpush"
    ]_vars

\* ------------------------------------------------------------------------
\* Properties of concurrent update_crawl_settings_for_dataset (checked under
\* ReconSpec)
\* ------------------------------------------------------------------------
BothDone == \A c \in Calls : recon[c].pc = "done"

SameDataset == recon["c1"].dataset = recon["c2"].dataset

\* the values the two calls set field f to
SetTo(f) == {recon[c].options[1][f] : c \in Calls} \ {None}

\* C21 (as claimed): when two calls for the same dataset have both
\* returned, however their steps interleaved, the crawl_options stored in
\* the requests of the dataset have every field that either call set, with
\* a value one of them set.
C21_NoLostUpdate ==
  (BothDone /\ SameDataset) =>
     \A i \in ByDataset(crawl_requests, recon["c1"].dataset[1]) :
        \A f \in DOMAIN crawl_requests[i].crawl_options :
           SetTo(f) # {} => crawl_requests[i].crawl_options[f] \in SetTo(f)

\* ------------------------------------------------------------------------
\* More properties of chunk_html (checked under SegSpec)
\* ------------------------------------------------------------------------
RECURSIVE Covers(_, _)
\* the chunks chs are the fragments frags in order, each fragment in one
\* chunk: the first chunk is the first fragments, each trimmed, joined by
\* one space, and the other chunks are the same of the fragments that follow
Covers(frags, chs) ==
  IF chs = << >> THEN frags = << >>
  ELSE \E k \in 1..Len(frags) :
         /\ Joined(SubSeq(frags, 1, k)) = chs[1].html
         /\ Covers(SubSeq(frags, k + 1, Len(frags)), Tail(chs))

\* C22 (as claimed): every candidate fragment of the input is in exactly one
\* chunk, and the html of the chunks, one after the other, is the fragments
\* in input order, each trimmed, those of one chunk joined by one space.
C22_NothingDroppedOrReordered ==
  Segmented => Covers(Fragments(html), chunks)

====
